---- MODULE Spec2Model ----
(***************************************************************************)
(* polite.paths: Directory and DirectoryMap over a shared filesystem.      *)
(*                                                                         *)
(* The filesystem is a function from absolute paths to entries.  A path is *)
(* the sequence of its components, so os.path.join(dir, name) appends a    *)
(* component and "path + new_ext" concatenates onto the last component.    *)
(* File names are plain names (no separator).  The target directory holds  *)
(* regular files only; the packaged source directory is never written.     *)
(*                                                                         *)
(* Spec     : calls made one after another (each call is one action).      *)
(* SpecRace : two processes, one call each, interleaved at every           *)
(*            filesystem access.                                           *)
(***************************************************************************)
EXTENDS Integers, Sequences, FiniteSets, TLC

VARIABLES fs, source_dir, last_copy_path, op, pc, frame

vars == <<fs, source_dir, last_copy_path, op, pc, frame>>

(* ------------------------------------------------------------------ *)
(* Values                                                              *)
(* ------------------------------------------------------------------ *)

\* Python's None, for a name or an error
None == "None"

\* Python's None, for an attribute that holds a path (no path is empty)
NoPath == <<>>

\* The DirectoryMap objects (one per process in SpecRace); all share the target.
Maps == {1, 2}

\* Number of components of the target directory's path
TargetDepth == 2

\* Directory._dir_path of the target and of the packaged source directory
TargetPath == SubSeq(<<"home", "config", "polite", "user">>, 1, TargetDepth)
SourcePath == <<"pkg", "examples">>

\* Contents of the packaged source directory (file name -> data)
SourceFiles == [a |-> "A", b |-> "B"]

\* Arguments the calls are made with
SrcNames == {"a", "b", "zz"}
DstNames == {None, "a"}
NewExts  == {".new", ".bak"}

\* A file the user has customised in the target directory
UserData == "user"

DirEntry == [kind |-> "dir", data |-> ""]
FileEntry(data) == [kind |-> "file", data |-> data]

(* ------------------------------------------------------------------ *)
(* os / shutil                                                         *)
(* ------------------------------------------------------------------ *)

\* Every leading part of a path, the path itself included
Prefixes(path) == {SubSeq(path, 1, k) : k \in 1..Len(path)}

Parent(path) == SubSeq(path, 1, Len(path) - 1)

\* The filesystem f with path bound to entry e
Put(f, path, e) == (path :> e) @@ f

os_path_isdir(f, path) == path \in DOMAIN f /\ f[path].kind = "dir"

os_path_isfile(f, path) == path \in DOMAIN f /\ f[path].kind = "file"

\* os.makedirs(path): creates the missing directories of the path; EEXIST when
\* the leaf exists, ENOTDIR when a leading part is a regular file.
os_makedirs(f, path) ==
    IF path \in DOMAIN f \/ \E q \in Prefixes(path) : os_path_isfile(f, q)
    THEN [err |-> "OSError", fs |-> f]
    ELSE [err |-> None,
          fs  |-> f @@ [q \in Prefixes(path) |-> DirEntry]]

\* path + ext on strings: the extension lands on the last component
PathPlus(path, ext) == [path EXCEPT ![Len(path)] = @ \o ext]

\* shutil.copy(src, dst) writes into the directory when dst is one
CopyDestination(f, src, dst) ==
    IF os_path_isdir(f, dst) THEN Append(dst, src[Len(src)]) ELSE dst

\* shutil.copy, first half: the source is opened for reading, then the
\* destination is created or truncated (it is empty until written).
shutil_open(f, src, dst) ==
    LET real == CopyDestination(f, src, dst)
    IN  IF src = real THEN [err |-> "Error", fs |-> f]
        ELSE IF ~os_path_isfile(f, src) THEN [err |-> "IOError", fs |-> f]
        ELSE IF ~os_path_isdir(f, Parent(real)) \/ os_path_isdir(f, real)
             THEN [err |-> "IOError", fs |-> f]
        ELSE [err |-> None, fs |-> Put(f, real, FileEntry(""))]

\* shutil.copy, second half: the source's data is written to the destination
shutil_write(f, src, real) == Put(f, real, FileEntry(f[src].data))

\* shutil.copy(src, dst) run without interruption
shutil_copy(f, src, dst) ==
    LET opened == shutil_open(f, src, dst)
    IN  IF opened.err # None THEN opened
        ELSE [err |-> None,
              fs  |-> shutil_write(opened.fs, src, CopyDestination(f, src, dst))]

(* ------------------------------------------------------------------ *)
(* Directory                                                           *)
(* ------------------------------------------------------------------ *)

get_path(dir_path, file_name) ==
    IF file_name # None THEN Append(dir_path, file_name) ELSE dir_path

isdir(f, dir_path) == os_path_isdir(f, dir_path)

\* Faulty variant: os.path.exists in place of os.path.isfile
isfile_exists(f, dir_path, file_name) ==
    get_path(dir_path, file_name) \in DOMAIN f

isfile(f, dir_path, file_name) ==
    LET test_path == get_path(dir_path, file_name)
    IN  os_path_isfile(f, test_path)

\* Faulty variant: the isdir test dropped
makedir_unguarded(f, dir_path) == os_makedirs(f, get_path(dir_path, None))

\* makedir as a function of the filesystem: the error raised (or None) and
\* the filesystem it leaves
makedir_effect(f, dir_path) ==
    IF ~isdir(f, dir_path)
    THEN os_makedirs(f, get_path(dir_path, None))
    ELSE [err |-> None, fs |-> f]

(* ------------------------------------------------------------------ *)
(* DirectoryMap                                                        *)
(* ------------------------------------------------------------------ *)

target_dir == TargetPath

target_exists_result(f, file_name) ==
    IF file_name # None
    THEN isfile(f, target_dir, file_name)
    ELSE isdir(f, target_dir)

\* The name the call works on: dst_name, or src_name when dst_name is None
FileName(src_name, dst_name) == IF dst_name = None THEN src_name ELSE dst_name

\* Faulty variant: "No source directory is given" surfacing as the attribute error of
\* None.get_path
SourceError_attribute(source) == IF source = NoPath THEN "AttributeError" ELSE None

\* The error copy_file raises for an unset source directory
SourceError(source) == IF source = NoPath THEN "ValueError" ELSE None

\* Faulty variant: no redirect, the destination is written whatever it holds
DstFilePath_noredirect(f, file_name, overwrite, new_ext) ==
    get_path(target_dir, file_name)

\* The destination of copy_file, after the conflict redirect
DstFilePath(f, file_name, overwrite, new_ext) ==
    LET dst_file_path == get_path(target_dir, file_name)
    IN  IF target_exists_result(f, file_name) /\ ~overwrite
        THEN PathPlus(dst_file_path, new_ext)
        ELSE dst_file_path

\* Faulty variant: the directory of the copy stored, not the file's path
StoredCopyPath_directory(dst_file_path) == Parent(dst_file_path)

\* The value stored in last_copy_path after a successful copy
StoredCopyPath(dst_file_path) == dst_file_path

\* What a call leaves: the error raised (or None), the filesystem, the map's
\* last_copy_path, the result of its existence test (FALSE when it made
\* none), whether a file was copied
Outcome(err, f, lcp, exists, copied) ==
    [err |-> err, fs |-> f, last_copy_path |-> lcp, exists |-> exists,
     copied |-> copied]

\* copy_file past the source test
copy_file_body(f, lcp, source, src_name, dst_name, overwrite, new_ext) ==
    LET file_name     == FileName(src_name, dst_name)
        exists        == target_exists_result(f, file_name)
        dst_file_path == DstFilePath(f, file_name, overwrite, new_ext)
        src_file_path == get_path(source, src_name)
        made          == makedir_effect(f, target_dir)
        copy          == shutil_copy(made.fs, src_file_path, dst_file_path)
    IN  IF made.err # None
        THEN Outcome(made.err, made.fs, lcp, exists, FALSE)
        ELSE IF copy.err # None
        THEN Outcome(copy.err, copy.fs, lcp, exists, FALSE)
        ELSE Outcome(None, copy.fs, StoredCopyPath(dst_file_path), exists, TRUE)

\* Faulty variant: the target directory prepared before the source test
copy_file_makedir_first(f, lcp, source, src_name, dst_name, overwrite, new_ext) ==
    LET made == makedir_effect(f, target_dir)
    IN  IF SourceError(source) # None
        THEN Outcome(SourceError(source), made.fs, lcp, FALSE, FALSE)
        ELSE copy_file_body(f, lcp, source, src_name, dst_name, overwrite, new_ext)

\* copy_file as a function of the state it starts in
copy_file_effect(f, lcp, source, src_name, dst_name, overwrite, new_ext) ==
    IF SourceError(source) # None
    THEN Outcome(SourceError(source), f, lcp, FALSE, FALSE)
    ELSE copy_file_body(f, lcp, source, src_name, dst_name, overwrite, new_ext)

\* Faulty variant: the copy made whether or not the target file exists
SafeCopyNeeded_always(f, file_name) == TRUE

\* The test of safe_copy_file: copy only when the target file is absent
SafeCopyNeeded(f, file_name) == ~target_exists_result(f, file_name)

\* safe_copy_file as a function of the state it starts in; exists is the
\* result of its own existence test
safe_copy_file_effect(f, lcp, source, src_name, dst_name) ==
    LET file_name == FileName(src_name, dst_name)
        exists    == target_exists_result(f, file_name)
    IN  IF SafeCopyNeeded(f, file_name)
        THEN [copy_file_effect(f, lcp, source, src_name, dst_name, FALSE, ".new")
                 EXCEPT !.exists = exists]
        ELSE Outcome(None, f, lcp, exists, FALSE)

(* ------------------------------------------------------------------ *)
(* State                                                               *)
(* ------------------------------------------------------------------ *)

\* The last call made (Spec): who, what, with which arguments, and how it ended
Called(m, name, src_name, dst_name, overwrite, new_ext, r) ==
    [map |-> m, name |-> name, src_name |-> src_name, dst_name |-> dst_name,
     overwrite |-> overwrite, new_ext |-> new_ext, err |-> r.err,
     exists |-> r.exists, copied |-> r.copied]

NoOp == Called(0, "none", None, None, FALSE, None,
               Outcome(None, <<>>, NoPath, FALSE, FALSE))

\* A process's call in progress (SpecRace)
IdleFrame == [call |-> "none", src_name |-> None, file_name |-> None,
              dst_file_path |-> NoPath, err |-> None]

\* The packaged source tree, always there
SourceTree ==
    [q \in Prefixes(SourcePath) \cup {Append(SourcePath, n) : n \in DOMAIN SourceFiles} |->
        IF q \in Prefixes(SourcePath) THEN DirEntry
        ELSE FileEntry(SourceFiles[q[Len(q)]])]

\* The target: absent with any number of its leading directories present,
\* present and empty, or present and holding a user's file
TargetTrees ==
    { [q \in Prefixes(SubSeq(TargetPath, 1, k)) |-> DirEntry] : k \in 0..TargetDepth }
    \cup
    { [q \in Prefixes(TargetPath) |-> DirEntry]
         @@ (Append(TargetPath, n) :> FileEntry(UserData)) : n \in {"a"} }

EmptyTargetTrees == {t \in TargetTrees : \A q \in DOMAIN t : t[q].kind = "dir"}

\* Every map in callers is built with or without a packaged source
InitWith(trees, callers) ==
    /\ fs \in {SourceTree @@ t : t \in trees}
    /\ source_dir \in {sd \in [Maps -> {NoPath, SourcePath}] :
                          \A m \in Maps \ callers : sd[m] = SourcePath}
    /\ last_copy_path = [m \in Maps |-> NoPath]
    /\ op = NoOp
    /\ pc = [m \in Maps |-> "idle"]
    /\ frame = [m \in Maps |-> IdleFrame]

Caller == CHOOSE m \in Maps : \A n \in Maps : m <= n

Init == InitWith(TargetTrees, {Caller})

(* ------------------------------------------------------------------ *)
(* Spec: one action per call, made on the DirectoryMap Caller          *)
(* ------------------------------------------------------------------ *)

copy_file(m, src_name, dst_name, overwrite, new_ext) ==
    LET r == copy_file_effect(fs, last_copy_path[m], source_dir[m],
                              src_name, dst_name, overwrite, new_ext)
    IN  /\ fs' = r.fs
        /\ last_copy_path' = [last_copy_path EXCEPT ![m] = r.last_copy_path]
        /\ op' = Called(m, "copy_file", src_name, dst_name, overwrite, new_ext, r)
        /\ UNCHANGED <<source_dir, pc, frame>>

safe_copy_file(m, src_name, dst_name) ==
    LET r == safe_copy_file_effect(fs, last_copy_path[m], source_dir[m],
                                   src_name, dst_name)
    IN  /\ fs' = r.fs
        /\ last_copy_path' = [last_copy_path EXCEPT ![m] = r.last_copy_path]
        /\ op' = Called(m, "safe_copy_file", src_name, dst_name, FALSE, ".new", r)
        /\ UNCHANGED <<source_dir, pc, frame>>

\* Directory.makedir on the target; exists is the result of its isdir test
makedir(m) ==
    LET r == makedir_effect(fs, target_dir)
    IN  /\ fs' = r.fs
        /\ op' = Called(m, "makedir", None, None, FALSE, None,
                        Outcome(r.err, r.fs, NoPath, isdir(fs, target_dir), FALSE))
        /\ UNCHANGED <<source_dir, last_copy_path, pc, frame>>

\* target_exists(file_name), file_name None included; exists is its result
target_exists(m, file_name) ==
    /\ op' = Called(m, "target_exists", None, file_name, FALSE, None,
                    Outcome(None, fs, NoPath, target_exists_result(fs, file_name), FALSE))
    /\ UNCHANGED <<fs, source_dir, last_copy_path, pc, frame>>

\* Names asked about: the call's names and the names the redirect produces
AskedNames == DstNames \cup {PathPlus(<<"a">>, e)[1] : e \in NewExts}

Next ==
    \/ \E s \in SrcNames, d \in DstNames, o \in BOOLEAN, e \in NewExts :
           copy_file(Caller, s, d, o, e)
    \/ \E s \in SrcNames, d \in DstNames : safe_copy_file(Caller, s, d)
    \/ makedir(Caller)
    \/ \E n \in AskedNames : target_exists(Caller, n)

Spec == Init /\ [][Next]_vars

(* ------------------------------------------------------------------ *)
(* SpecRace: two processes, each making one call on its own DirectoryMap, *)
(* with the default dst_name, overwrite and new_ext.  A step is one access *)
(* to the filesystem.  os.makedirs is one step: it tolerates a parent that *)
(* appears while it runs and raises only for the leaf, as modelled.        *)
(* ------------------------------------------------------------------ *)

\* Where makedir returns to
AfterMakedir(p) == IF frame[p].call = "makedir" THEN "done" ELSE "copy"

CallMakedir(p) ==
    /\ pc[p] = "idle"
    /\ frame' = [frame EXCEPT ![p].call = "makedir"]
    /\ pc' = [pc EXCEPT ![p] = "isdir"]
    /\ UNCHANGED <<fs, source_dir, last_copy_path, op>>

CallCopyFile(p, src_name) ==
    /\ pc[p] = "idle"
    /\ frame' = [frame EXCEPT ![p].call = "copy_file", ![p].src_name = src_name,
                              ![p].file_name = FileName(src_name, None)]
    /\ pc' = [pc EXCEPT ![p] = "copy_file"]
    /\ UNCHANGED <<fs, source_dir, last_copy_path, op>>

CallSafeCopyFile(p, src_name) ==
    /\ pc[p] = "idle"
    /\ frame' = [frame EXCEPT ![p].call = "safe_copy_file",
                              ![p].src_name = src_name,
                              ![p].file_name = FileName(src_name, None)]
    /\ pc' = [pc EXCEPT ![p] = "safe_copy_file"]
    /\ UNCHANGED <<fs, source_dir, last_copy_path, op>>

\* safe_copy_file: the existence test
SafeCopyTest(p) ==
    /\ pc[p] = "safe_copy_file"
    /\ pc' = [pc EXCEPT ![p] = IF SafeCopyNeeded(fs, frame[p].file_name)
                               THEN "copy_file" ELSE "done"]
    /\ UNCHANGED <<fs, source_dir, last_copy_path, op, frame>>

\* copy_file: the source test, then the existence test that picks the destination
CopyFileDestination(p) ==
    /\ pc[p] = "copy_file"
    /\ IF SourceError(source_dir[p]) # None
       THEN /\ frame' = [frame EXCEPT ![p].err = SourceError(source_dir[p])]
            /\ pc' = [pc EXCEPT ![p] = "done"]
       ELSE /\ frame' = [frame EXCEPT ![p].dst_file_path =
                            DstFilePath(fs, frame[p].file_name, FALSE, ".new")]
            /\ pc' = [pc EXCEPT ![p] = "isdir"]
    /\ UNCHANGED <<fs, source_dir, last_copy_path, op>>

\* makedir: the isdir test
MakedirTest(p) ==
    /\ pc[p] = "isdir"
    /\ pc' = [pc EXCEPT ![p] = IF ~isdir(fs, target_dir)
                               THEN "makedirs" ELSE AfterMakedir(p)]
    /\ UNCHANGED <<fs, source_dir, last_copy_path, op, frame>>

\* makedir: os.makedirs, after an isdir test that answered false
MakedirCreate(p) ==
    /\ pc[p] = "makedirs"
    /\ LET r == os_makedirs(fs, get_path(target_dir, None))
       IN  /\ fs' = r.fs
           /\ frame' = [frame EXCEPT ![p].err = r.err]
           /\ pc' = [pc EXCEPT ![p] = IF r.err # None THEN "done"
                                      ELSE AfterMakedir(p)]
    /\ UNCHANGED <<source_dir, last_copy_path, op>>

\* copy_file: shutil.copy opens the source and creates or truncates the destination
CopyOpen(p) ==
    /\ pc[p] = "copy"
    /\ LET r == shutil_open(fs, get_path(source_dir[p], frame[p].src_name),
                            frame[p].dst_file_path)
       IN  /\ fs' = r.fs
           /\ frame' = [frame EXCEPT ![p].err = r.err]
           /\ pc' = [pc EXCEPT ![p] = IF r.err # None THEN "done" ELSE "write"]
    /\ UNCHANGED <<source_dir, last_copy_path, op>>

\* copy_file: shutil.copy writes the data, and the destination is recorded
CopyWrite(p) ==
    /\ pc[p] = "write"
    /\ fs' = shutil_write(fs, get_path(source_dir[p], frame[p].src_name),
                          frame[p].dst_file_path)
    /\ last_copy_path' = [last_copy_path EXCEPT
                             ![p] = StoredCopyPath(frame[p].dst_file_path)]
    /\ pc' = [pc EXCEPT ![p] = "done"]
    /\ UNCHANGED <<source_dir, op, frame>>

InitRace == InitWith(EmptyTargetTrees, Maps)

NextRace ==
    \E p \in Maps :
        \/ CallMakedir(p)
        \/ \E s \in SrcNames : CallCopyFile(p, s)
        \/ \E s \in SrcNames : CallSafeCopyFile(p, s)
        \/ SafeCopyTest(p)
        \/ CopyFileDestination(p)
        \/ MakedirTest(p)
        \/ MakedirCreate(p)
        \/ CopyOpen(p)
        \/ CopyWrite(p)

SpecRace == InitRace /\ [][NextRace]_vars

(* ------------------------------------------------------------------ *)
(* Vocabulary of the properties                                        *)
(* ------------------------------------------------------------------ *)

\* The path of name n directly under the target directory
InTarget(n) == TargetPath \o <<n>>

\* A regular file is at the path, in filesystem f
RegularFileAt(f, path) == path \in DOMAIN f /\ f[path].kind = "file"

\* A regular file with this data is at the path
HoldsData(f, path, data) == RegularFileAt(f, path) /\ f[path].data = data

\* The paths of the regular files directly under the target directory
TargetFiles(f) ==
    {q \in DOMAIN f : /\ Len(q) = Len(TargetPath) + 1
                      /\ SubSeq(q, 1, Len(TargetPath)) = TargetPath
                      /\ f[q].kind = "file"}

\* Every file of the target directory in f is in g with the same content
FilesKept(f, g) == \A q \in TargetFiles(f) : q \in TargetFiles(g) /\ g[q] = f[q]

\* The name the last call worked on
OpFileName(o) == IF o.dst_name = None THEN o.src_name ELSE o.dst_name

\* The last call was a copy_file whose source directory and source file exist
CopiesExistingSource(o) ==
    /\ o.name = "copy_file"
    /\ source_dir[o.map] # NoPath
    /\ o.src_name \in DOMAIN SourceFiles

(* ------------------------------------------------------------------ *)
(* C1                                                                  *)
(* ------------------------------------------------------------------ *)

\* C1: when the target directory holds a regular file dst_name, a
\* copy_file(src_name, dst_name, overwrite=False) with the default new_ext,
\* of a file the source directory holds, succeeds, leaves dst_name's content
\* as it was, and leaves dst_name + ".new" holding the content of src_name.
C1_ConflictWritesAlongside ==
    [][ ( /\ CopiesExistingSource(op')
          /\ ~op'.overwrite
          /\ op'.new_ext = ".new"
          /\ RegularFileAt(fs, InTarget(OpFileName(op'))) )
        => ( /\ op'.err = None
             /\ fs'[InTarget(OpFileName(op'))] = fs[InTarget(OpFileName(op'))]
             /\ HoldsData(fs', InTarget(OpFileName(op') \o ".new"),
                          SourceFiles[op'.src_name]) ) ]_vars

\* C1 witness: the user's file "a" is still the user's, and "a.new" holds the
\* packaged "b", after copy_file("b", "a") found "a" in the way.
C1_Witness ==
    /\ op.name = "copy_file" /\ op.src_name = "b" /\ op.dst_name = "a"
    /\ ~op.overwrite /\ op.new_ext = ".new" /\ op.exists /\ op.copied
    /\ HoldsData(fs, InTarget("a"), UserData)
    /\ HoldsData(fs, InTarget("a.new"), SourceFiles["b"])

(* ------------------------------------------------------------------ *)
(* C2                                                                  *)
(* ------------------------------------------------------------------ *)

\* C2 (as claimed): a copy_file with overwrite=False leaves every file that
\* was in the target directory before the call with the content it had.
C2_NeverOverwrites ==
    [][ (op'.name = "copy_file" /\ ~op'.overwrite) => FilesKept(fs, fs') ]_vars

(* ------------------------------------------------------------------ *)
(* C3                                                                  *)
(* ------------------------------------------------------------------ *)

\* C3: a safe_copy_file call made while the target directory holds dst_name
\* (src_name when dst_name is not given) copies nothing, raises nothing and
\* leaves the filesystem and last_copy_path as they were; and a
\* safe_copy_file call that did copy leaves dst_name in the target, so every
\* later call is of the first kind.
C3_SafeCopyIdempotent ==
    [][ (op'.name = "safe_copy_file")
        => ( /\ RegularFileAt(fs, InTarget(OpFileName(op')))
                => ( /\ ~op'.copied /\ op'.err = None
                     /\ fs' = fs
                     /\ last_copy_path' = last_copy_path )
             /\ op'.copied => RegularFileAt(fs', InTarget(OpFileName(op'))) ) ]_vars

\* C3 witness: a safe_copy_file that found the file an earlier call of this
\* map had provisioned, and copied nothing.
C3_Witness ==
    /\ op.name = "safe_copy_file" /\ op.exists /\ ~op.copied
    /\ last_copy_path[op.map] = InTarget(OpFileName(op))

(* ------------------------------------------------------------------ *)
(* C4                                                                  *)
(* ------------------------------------------------------------------ *)

\* C4: on a map without a source directory every copy_file call raises
\* ValueError, and so does every safe_copy_file call that found the target
\* file absent.
C4_NoSourceRaises ==
    (op.name \in {"copy_file", "safe_copy_file"} /\ source_dir[op.map] = NoPath)
    => ( /\ op.name = "copy_file" => op.err = "ValueError"
         /\ (op.name = "safe_copy_file" /\ ~op.exists) => op.err = "ValueError" )

\* C4 witness: a safe_copy_file on a map without a source, target file
\* absent, ended in ValueError.
C4_Witness ==
    /\ op.name = "safe_copy_file" /\ source_dir[op.map] = NoPath
    /\ ~op.exists /\ op.err = "ValueError"

(* ------------------------------------------------------------------ *)
(* C7                                                                  *)
(* ------------------------------------------------------------------ *)

\* C7: makedir() changes the filesystem only when isdir() was false, and then
\* the directory and its missing parents exist; called when the directory
\* exists it changes nothing; it raises nothing; and a second makedir()
\* right after it would change nothing and raise nothing.
C7_MakedirIdempotent ==
    [][ (op'.name = "makedir")
        => ( /\ op'.err = None
             /\ os_path_isdir(fs, TargetPath) => fs' = fs
             /\ \A q \in Prefixes(TargetPath) : os_path_isdir(fs', q)
             /\ \A q \in DOMAIN fs : q \in DOMAIN fs' /\ fs'[q] = fs[q]
             /\ makedir_effect(fs', TargetPath) = [err |-> None, fs |-> fs'] ) ]_vars

\* C7 witness: a makedir() that found the directory there and returned
C7_Witness ==
    /\ op.name = "makedir" /\ op.exists /\ op.err = None
    /\ os_path_isdir(fs, TargetPath)

(* ------------------------------------------------------------------ *)
(* C8                                                                  *)
(* ------------------------------------------------------------------ *)

\* The destination the claim names: target.get_path(dst_name), with new_ext
\* appended when dst_name was there and overwrite was off
ClaimedDestination(f, o) ==
    IF RegularFileAt(f, InTarget(OpFileName(o))) /\ ~o.overwrite
    THEN InTarget(OpFileName(o) \o o.new_ext)
    ELSE InTarget(OpFileName(o))

\* C8: last_copy_path is None on a new DirectoryMap; a call that copied
\* leaves it at the destination written (redirected or not), which then holds
\* the source's content; every other call leaves it as it was.
C8_LastCopyPath ==
    /\ \A m \in Maps : last_copy_path[m] = NoPath
    /\ [][ /\ op'.copied
              => ( /\ last_copy_path'[op'.map] = ClaimedDestination(fs, op')
                   /\ HoldsData(fs', last_copy_path'[op'.map],
                                SourceFiles[op'.src_name]) )
           /\ ~op'.copied => last_copy_path' = last_copy_path
           /\ \A m \in Maps \ {op'.map} : last_copy_path'[m] = last_copy_path[m]
        ]_vars

\* C8 witness: last_copy_path is the redirected destination of copy_file's
\* last copy, made with a new_ext of the caller's
C8_Witness ==
    /\ op.name = "copy_file" /\ op.copied /\ op.exists /\ ~op.overwrite
    /\ op.new_ext = ".bak"
    /\ last_copy_path[op.map] = InTarget("a.bak")

(* ------------------------------------------------------------------ *)
(* C9                                                                  *)
(* ------------------------------------------------------------------ *)

\* Directories asked, and the names asked of them (one names a directory)
AskedDirs == {TargetPath, SourcePath, Parent(TargetPath)}
AskedOfDir == (AskedNames \ {None}) \cup SrcNames \cup {TargetPath[Len(TargetPath)]}

\* C9: isfile(f) of a Directory is true exactly when a regular file is at
\* its get_path(f); target_exists(f) answers the same for the target,
\* target_exists() answers whether the target path is a directory; and the
\* file a copy placed is reported as existing.
C9_ExistenceChecks ==
    /\ \A d \in AskedDirs, n \in AskedOfDir :
           isfile(fs, d, n) <=> RegularFileAt(fs, d \o <<n>>)
    /\ op.name = "target_exists"
       => op.exists = IF op.dst_name = None
                      THEN (TargetPath \in DOMAIN fs /\ fs[TargetPath].kind = "dir")
                      ELSE RegularFileAt(fs, InTarget(op.dst_name))
    /\ TargetPath \notin DOMAIN fs
       => \A n \in AskedOfDir : ~target_exists_result(fs, n)
    /\ op.copied
       => target_exists_result(fs, last_copy_path[op.map][Len(TargetPath) + 1])

\* C9 witness: target_exists("a.new") answered true for the file a redirected
\* copy placed
C9_Witness ==
    /\ op.name = "target_exists" /\ op.dst_name = "a.new" /\ op.exists
    /\ last_copy_path[op.map] = InTarget("a.new")

(* ------------------------------------------------------------------ *)
(* C10                                                                 *)
(* ------------------------------------------------------------------ *)

\* C10: a copy_file that raised, for an unset source directory or for a
\* src_name the source directory does not hold, leaves last_copy_path as it
\* was, creates no file in the target directory and keeps every file there;
\* for the unset source the filesystem is unchanged, target directory
\* included.  (A copy_file made by safe_copy_file included.)
C10_FailedCopyHasNoEffect ==
    [][ (op'.name \in {"copy_file", "safe_copy_file"} /\ op'.err # None)
        => ( /\ op'.err \in {"ValueError", "IOError"}
             /\ op'.err = "ValueError" <=> source_dir[op'.map] = NoPath
             /\ op'.err = "IOError" => op'.src_name \notin DOMAIN SourceFiles
             /\ last_copy_path' = last_copy_path
             /\ TargetFiles(fs') = TargetFiles(fs)
             /\ FilesKept(fs, fs')
             /\ op'.err = "ValueError" => fs' = fs ) ]_vars

\* C10 witness: a copy_file of a missing source file raised; the file copied
\* before is there and last_copy_path still names it
C10_Witness ==
    /\ op.name = "copy_file" /\ op.err = "IOError" /\ op.src_name = "zz"
    /\ last_copy_path[op.map] = InTarget("a.new")
    /\ RegularFileAt(fs, InTarget("a.new"))

(* ------------------------------------------------------------------ *)
(* C5, C6 (SpecRace)                                                   *)
(* ------------------------------------------------------------------ *)

\* Process p has finished a safe_copy_file(s) on a map with a source
RanSafeCopy(p, s) ==
    /\ pc[p] = "done"
    /\ frame[p].call = "safe_copy_file" /\ frame[p].src_name = s
    /\ source_dir[p] # NoPath

\* C5 (as claimed): when both processes have run safe_copy_file(s) on a
\* target that did not hold s, the target directory holds exactly the file s,
\* with the source's content.
C5_RaceLeavesOneCopy ==
    \A s \in DOMAIN SourceFiles :
        (\A p \in Maps : RanSafeCopy(p, s))
        => ( /\ TargetFiles(fs) = {InTarget(s)}
             /\ HoldsData(fs, InTarget(s), SourceFiles[s]) )

\* Process p has finished a call that went through makedir
RanMakedir(p) ==
    /\ pc[p] = "done"
    /\ frame[p].call = "makedir" \/ frame[p].dst_file_path # NoPath

\* C6 (as claimed): when both processes have called makedir(), directly or
\* through copy_file, on a directory that did not exist, neither call raised
\* from makedir and the directory exists.
C6_MakedirRaceTolerated ==
    (\A p \in Maps : RanMakedir(p))
    => ( /\ \A p \in Maps : frame[p].err # "OSError"
         /\ os_path_isdir(fs, TargetPath) )

====
